---- MODULE Spec2Model ----
(***************************************************************************)
(* A model of the Series of dataframe-go: SeriesFloat64 (dense, NaN is the *)
(* absent value) and SeriesInt64 (boxed, a nil pointer is the absent       *)
(* value), and of the operations on them.                                  *)
(*                                                                         *)
(* A Go slice is modelled as it is in memory: a backing array in `heap`    *)
(* (whose length is the slice's capacity) and a length kept in the Series  *)
(* record.  Every slice of the program starts at offset 0 of its array.    *)
(* Rows are numbered from 0 as in the source; position r of the program is *)
(* element r+1 of the TLA+ sequence.                                       *)
(***************************************************************************)
EXTENDS Integers, Sequences, FiniteSets, TLC

\* ------------------------------------------------------------------ bounds

\* The longest Series the model builds.
MaxLen == 3
\* How much spare capacity an allocation may be given beyond what is needed.
MaxSpare == 1
\* The longest batch given to Insert.
MaxBatch == 3
\* How far nilCount may fall behind the number of absent rows before the
\* model stops taking the step that widens the gap.
MaxDrift == 1
\* The longest Series of the runs that hold a Series and its copy, and the
\* spare capacity their allocations may be given.
CopyLen == 2
CopySpare == 0

\* ------------------------------------------------------------------ values

\* The absent value: NaN of a SeriesFloat64, the nil pointer of a SeriesInt64.
Nil == -1
\* The present values the callers pass.
PresentVals == {1, 3}
Vals == {v : v \in PresentVals \cup {Nil}}
Kinds == {"float64", "int64"}
\* What make() fills a new array with: 0.0, or the nil pointer.
Zero(k) == IF k = "float64" THEN 0 ELSE Nil

isNaN(v) == v = Nil

Min(a, b) == IF a < b THEN a ELSE b
Max(a, b) == IF a > b THEN a ELSE b

\* Cells lo..hi (1-based, inclusive) of a sequence, and the concatenation of
\* two sequences, read cell by cell.
Slice(seq, lo, hi) == [i \in 1..(hi - lo + 1) |-> seq[lo + i - 1]]
Cat(a, b) ==
  [i \in 1..(Len(a) + Len(b)) |-> IF i <= Len(a) THEN a[i] ELSE b[i - Len(a)]]

SeqsUpTo(S, n) == UNION {[1..k -> S] : k \in 0..n}
Zeros(k, n) == [i \in 1..n |-> Zero(k)]
CountNil(seq) == Cardinality({i \in 1..Len(seq) : isNaN(seq[i])})

\* ------------------------------------------------------------------ state

Series == {"src", "cpy"}
Arrays == {1, 2}

VARIABLES
  kind,   \* "float64" or "int64": which Series type the run is about
  heap,   \* the backing arrays: array id -> its cells (Len = capacity)
  ser,    \* Series -> [live, arr, len, nilCount, name]
  last,   \* the last call: what was called, with what, on what, and its result
  lock,   \* the RWMutex of src: [w: the thread holding it for writing, r: the
          \* threads holding it for reading]
  thr,    \* thread -> the call it is in: where it is, and the call's locals
  ctx,    \* the context.Context of the forecast: what its Err() returns
  ses     \* the call of SimpleExponentialSmoothing: where it is, its locals

vars == <<kind, heap, ser, last, lock, thr, ctx, ses>>

Threads == {"t1", "t2"}
NoThread == "none"

\* The rows of a Series: the first len cells of its backing array.
Rows(h, s) == Slice(h[s.arr], 1, s.len)
Cap(h, s) == Len(h[s.arr])
RowsOf(t) == Rows(heap, ser[t])

\* The array a Series allocates into: its own array once nothing else uses it
\* (the old array is garbage as soon as the slice header is overwritten), and
\* the other array while the other Series still points at its own.
HomeArr(t) == IF t = "src" THEN 1 ELSE 2
OtherSer(t) == IF t = "src" THEN "cpy" ELSE "src"
FreshArr(t) ==
  IF ser[OtherSer(t)].live /\ ser[OtherSer(t)].arr = HomeArr(t)
  THEN HomeArr(OtherSer(t)) ELSE HomeArr(t)

\* The view of one Series the operations work on: the heap, the Series record
\* and the array an allocation would take.
Mem(t) == [h |-> heap, s |-> ser[t], na |-> FreshArr(t)]

\* ------------------------------------------------------------------ slices

\* copy(dst[to:], src[from:]) within one array (memmove): cells from..hi-1 of
\* the old array land at to.. (0-based; hi is the slice length).
CopyWithin(arr, to, from, hi) ==
  LET n == Min(hi - to, hi - from) IN
  [i \in 1..Len(arr) |->
     IF i - 1 >= to /\ i - 1 < to + n THEN arr[i - to + from] ELSE arr[i]]

\* append(slice, xs...) where slice is the first `len` cells of array s.arr:
\* in place when the capacity allows, else into a new array of capacity nc.
GoAppend(m, len, xs, nc) ==
  LET need == len + Len(xs)
      old  == m.h[m.s.arr]
  IN IF need <= Len(old)
     THEN [m EXCEPT !.h[m.s.arr] =
                      [i \in 1..Len(old) |->
                         IF i > len /\ i <= need THEN xs[i - len] ELSE old[i]],
                    !.s.len = need]
     ELSE [m EXCEPT !.h[m.na] = Cat(Cat(Slice(old, 1, len), xs), Zeros(kind, nc - need)),
                    !.s.arr = m.na,
                    !.s.len = need]

\* The capacities an append of k cells to the first `len` cells may end with:
\* the array's own when the cells fit, else what is needed and up to `spare`
\* more (Go promises no more than "sufficiently large").
NewCaps(m, len, k, spare) ==
  IF len + k <= Cap(m.h, m.s) THEN {Cap(m.h, m.s)}
  ELSE (len + k)..(len + k + spare)

\* ------------------------------------------------------------------ Series

valToPointer(v) == v

\* insert(row, val) with a single value.
insert(m, row, val, nc) ==
  LET a == GoAppend(m, m.s.len, <<Nil>>, nc)
      b == [a EXCEPT !.h[a.s.arr] = CopyWithin(@, row + 1, row, a.s.len)]
      v == valToPointer(val)
      c == IF isNaN(v) THEN [b EXCEPT !.s.nilCount = @ + 1] ELSE b
  IN [c EXCEPT !.h[c.s.arr][row + 1] = v]

\* The batch types insert's type switch knows, per Series type.
BatchTypes(k) == IF k = "float64" THEN {"[]float64"} ELSE {"[]int64", "[]*int64"}
\* The batches of a type: a []int64 holds no absent entry.
Batches(typ, n) ==
  IF typ = "[]int64" THEN SeqsUpTo(PresentVals, n) \ {<<>>}
  ELSE SeqsUpTo(Vals, n) \ {<<>>}

\* A batch insert that counts no absent entry, as the []int64 case does.
insertBatchUncounted(m, row, typ, V, nc) ==
  GoAppend(m, row, Cat(V, Slice(m.h[m.s.arr], row + 1, m.s.len)), nc)

\* insert(row, val) with a batch: the []float64 and []*int64 cases count the
\* absent entries, the []int64 case boxes every entry and counts nothing.
insertBatch(m, row, typ, V, nc) ==
  LET c == IF typ = "[]int64" THEN m
           ELSE [m EXCEPT !.s.nilCount = @ + CountNil(V)]
      X == Cat(V, Slice(m.h[m.s.arr], row + 1, m.s.len))
  IN GoAppend(c, row, X, nc)

Prepend(m, val, nc) ==
  IF Cap(m.h, m.s) > m.s.len
  THEN LET a == [m EXCEPT !.s.len = @ + 1]
           b == [a EXCEPT !.h[a.s.arr] = CopyWithin(@, 1, 0, a.s.len)]
       IN [b EXCEPT !.h[b.s.arr][1] = valToPointer(val)]
  ELSE insert(m, 0, val, nc)

NRows(m) == m.s.len

Value(m, row) == m.h[m.s.arr][row + 1]

\* A Remove that leaves nilCount alone.
removeKeepsNilCount(m, row) ==
  GoAppend(m, row, Slice(m.h[m.s.arr], row + 2, m.s.len), Cap(m.h, m.s))
Remove(m, row) ==
  LET a == IF isNaN(m.h[m.s.arr][row + 1]) THEN [m EXCEPT !.s.nilCount = @ - 1] ELSE m
      tail == Slice(m.h[m.s.arr], row + 2, m.s.len)
  IN GoAppend(a, row, tail, Cap(m.h, m.s))

Update(m, row, val) ==
  LET newVal == valToPointer(val)
      old == m.h[m.s.arr][row + 1]
      a == IF isNaN(old) /\ ~isNaN(newVal) THEN [m EXCEPT !.s.nilCount = @ - 1]
           ELSE IF ~isNaN(old) /\ isNaN(newVal) THEN [m EXCEPT !.s.nilCount = @ + 1]
           ELSE m
  IN [a EXCEPT !.h[a.s.arr][row + 1] = newVal]

\* A value valToPointer cannot coerce: its default case fails to parse
\* fmt.Sprintf("%v", v) and panics on the type assertion that follows.
Uncoercible == -2
valToPointerPanics(v) == v = Uncoercible

\* insert(row, val) with a single value panics: in copy, on a row that is not
\* in 0..len, or in valToPointer, on the value.
insertPanics(m, row, val) == row \notin 0..m.s.len \/ valToPointerPanics(val)
\* The Series a panicking insert leaves behind: the cell is appended before
\* the row is looked at, and the rows are shifted before val is.
insertRecovered(m, row, val, nc) ==
  LET a == GoAppend(m, m.s.len, <<Nil>>, nc)
  IN IF row \notin 0..m.s.len THEN a
     ELSE [a EXCEPT !.h[a.s.arr] = CopyWithin(@, row + 1, row, a.s.len)]

\* The Series a Prepend that panics in valToPointer leaves behind: with spare
\* capacity the slice is extended and shifted before val is looked at.
PrependRecovered(m, val, nc) ==
  IF Cap(m.h, m.s) > m.s.len
  THEN LET a == [m EXCEPT !.s.len = @ + 1]
       IN [a EXCEPT !.h[a.s.arr] = CopyWithin(@, 1, 0, a.s.len)]
  ELSE insertRecovered(m, 0, val, nc)

\* Update panics in valToPointer, its first statement, or on s.Values[row],
\* read before anything is written.
UpdatePanics(m, row, val) == valToPointerPanics(val) \/ row \notin 0..(m.s.len - 1)
UpdateRecovered(m, row, val) == m

swapOverwrites(m, row1, row2) ==
  [m EXCEPT !.h[m.s.arr][row2 + 1] = m.h[m.s.arr][row1 + 1]]
Swap(m, row1, row2) ==
  IF row1 = row2 THEN m
  ELSE [m EXCEPT !.h[m.s.arr][row1 + 1] = m.h[m.s.arr][row2 + 1],
                 !.h[m.s.arr][row2 + 1] = m.h[m.s.arr][row1 + 1]]

ContainsNil(m) == m.s.nilCount > 0

\* IsEqualFunc(a, b) and IsLessThanFunc(a, b), of both Series types: nil is
\* the absent value.
IsEqualFunc(a, b) ==
  IF a = Nil THEN (IF b = Nil THEN TRUE ELSE FALSE)
  ELSE IF b = Nil THEN FALSE
  ELSE a = b
IsLessThanFunc(a, b) ==
  IF a = Nil THEN (IF b = Nil THEN TRUE ELSE TRUE)
  ELSE IF b = Nil THEN FALSE
  ELSE a < b

\* ------------------------------------------------------------------ Sort

\* The comparator Sort hands to sort.SliceStable, on cells i and j (0-based)
\* of the slice being sorted; a cell is <<value, position before the sort>>.
\* The deferred function negates the result when sortDesc is set.
lessAsc(data, i, j) ==
  IF isNaN(data[i + 1][1]) THEN TRUE
  ELSE IF isNaN(data[j + 1][1]) THEN FALSE
  ELSE data[i + 1][1] < data[j + 1][1]

\* A comparator whose deferred negation is lost.
lessNotNegated(data, i, j, sortDesc) == lessAsc(data, i, j)

less(data, i, j, sortDesc) ==
  IF sortDesc THEN ~lessAsc(data, i, j) ELSE lessAsc(data, i, j)

swapCells(data, i, j) ==
  [data EXCEPT ![i + 1] = data[j + 1], ![j + 1] = data[i + 1]]

\* sort.SliceStable on fewer than 20 cells is insertionSort(data, 0, n):
\*   for i := a + 1; i < b; i++ {
\*     for j := i; j > a && less(j, j-1); j-- { swap(j, j-1) } }
RECURSIVE sinkCell(_, _, _, _)
sinkCell(data, j, a, sortDesc) ==
  IF j > a /\ less(data, j, j - 1, sortDesc)
  THEN sinkCell(swapCells(data, j, j - 1), j - 1, a, sortDesc)
  ELSE data

RECURSIVE insertionSort(_, _, _, _, _)
insertionSort(data, a, i, b, sortDesc) ==
  IF i < b
  THEN insertionSort(sinkCell(data, i, a, sortDesc), a, i + 1, b, sortDesc)
  ELSE data

\* The rows of m, each tagged with its position, as Sort leaves them.
SortedCells(m, sortDesc) ==
  LET rows == Rows(m.h, m.s)
      data == [i \in 1..Len(rows) |-> <<rows[i], i - 1>>]
  IN insertionSort(data, 0, 1, Len(rows), sortDesc)

Sort(m, sortDesc) ==
  LET out == SortedCells(m, sortDesc) IN
  [m EXCEPT !.h[m.s.arr] =
     [i \in 1..Len(@) |-> IF i <= m.s.len THEN out[i][1] ELSE @[i]]]

\* ------------------------------------------------------------------ NewSeries

\* The loop of NewSeriesFloat64/NewSeriesInt64 over vals, from index idx.
RECURSIVE newSeriesLoop(_, _, _, _, _)
newSeriesLoop(m, size, vals, idx, nc) ==
  IF idx >= Len(vals) THEN m
  ELSE LET val == valToPointer(vals[idx + 1])
           a == IF isNaN(val) THEN [m EXCEPT !.s.nilCount = @ + 1] ELSE m
           b == IF idx < size THEN [a EXCEPT !.h[a.s.arr][idx + 1] = val]
                ELSE GoAppend(a, a.s.len, <<val>>, nc)
       IN newSeriesLoop(b, size, vals, idx + 1, nc)

newSeriesNoFill(k, h, na, name, size, capacity, vals, nc) ==
  LET cp == Max(size, capacity)
      m0 == [h |-> [h EXCEPT ![na] = Zeros(k, cp)],
             s |-> [live |-> TRUE, arr |-> na, len |-> size, nilCount |-> 0,
                    name |-> name],
             na |-> na]
      m1 == newSeriesLoop(m0, size, vals, 0, nc)
  IN IF Len(vals) < size
     THEN [m1 EXCEPT !.s.nilCount = @ + size - Len(vals)]
     ELSE m1

\* NewSeries*(name, &SeriesInit{Size: size, Capacity: capacity}, vals...) of
\* Series type k, built in array na of heap h; nc is the capacity an append
\* that outgrows the array leaves.
NewSeries(k, h, na, name, size, capacity, vals, nc) ==
  LET cp == Max(size, capacity)
      m0 == [h |-> [h EXCEPT ![na] = Zeros(k, cp)],
             s |-> [live |-> TRUE, arr |-> na, len |-> size, nilCount |-> 0,
                    name |-> name],
             na |-> na]
      m1 == newSeriesLoop(m0, size, vals, 0, nc)
  IN IF Len(vals) < size
     THEN [m1 EXCEPT !.s.nilCount = @ + size - Len(vals),
                     !.h[na] = [i \in 1..Len(@) |->
                                  IF k = "float64" /\ i > Len(vals) /\ i <= size
                                  THEN Nil ELSE @[i]]]
     ELSE m1

\* ------------------------------------------------------------------ Range

\* Range{} (no bound given: the whole Series) or explicit bounds.
NoRange == [all |-> TRUE, start |-> 0, end |-> 0]
Ranges(n) ==
  {NoRange} \cup {[all |-> FALSE, start |-> a, end |-> b] : a \in (-1)..n, b \in (-1)..n}

\* Range.Limits(n): the inclusive pair, or an error when start > end,
\* start < 0 or end >= n.
Limits(r, n) ==
  LET start == IF r.all THEN 0 ELSE r.start
      end   == IF r.all THEN n - 1 ELSE r.end
  IN [err |-> start > end \/ start < 0 \/ end >= n, start |-> start, end |-> end]

\* ------------------------------------------------------------------ Copy

\* A Copy that keeps the slice it took of the source (newSlice := x) whenever
\* that slice starts at row 0.
copySliceShared(m, start, end, na, nc) ==
  IF start = 0 THEN [h |-> m.h, arr |-> m.s.arr]
  ELSE [h |-> [m.h EXCEPT ![na] = Slice(m.h[m.s.arr], start + 1, end + 1)],
        arr |-> na]

\* x := s.Values[start : end+1]; newSlice := append(x[:0:0], x...): x[:0:0]
\* has no capacity, so the cells are copied into a new array, of capacity nc.
copySlice(m, start, end, na, nc) ==
  LET x == Slice(m.h[m.s.arr], start + 1, end + 1) IN
  [h |-> [m.h EXCEPT ![na] = Cat(x, Zeros(kind, nc - Len(x)))], arr |-> na]

copyResolvesFirst(m, r, na, nc) ==
  LET lim == Limits(r, m.s.len) IN
  IF lim.err THEN [out |-> "panic", h |-> m.h, s |-> m.s]
  ELSE LET c == copySlice(m, lim.start, lim.end, na, nc)
       IN [out |-> "ok",
           h |-> c.h,
           s |-> [live |-> TRUE, arr |-> c.arr,
                  len |-> lim.end - lim.start + 1,
                  nilCount |-> m.s.nilCount, name |-> m.s.name]]

\* Copy(r): the new Series and the heap holding it, or a panic when the range
\* does not resolve.  na is the array the copy is allocated in.
Copy(m, r, na, nc) ==
  IF m.s.len = 0
  THEN [out |-> "ok",
        h |-> [m.h EXCEPT ![na] = <<>>],
        s |-> [live |-> TRUE, arr |-> na, len |-> 0, nilCount |-> m.s.nilCount,
               name |-> m.s.name]]
  ELSE LET lim == Limits(r, m.s.len) IN
       IF lim.err THEN [out |-> "panic", h |-> m.h, s |-> m.s]
       ELSE LET c == copySlice(m, lim.start, lim.end, na, nc)
            IN [out |-> "ok",
                h |-> c.h,
                s |-> [live |-> TRUE, arr |-> c.arr,
                       len |-> lim.end - lim.start + 1,
                       nilCount |-> m.s.nilCount, name |-> m.s.name]]

\* Table(r): the rows it renders, or a panic when the range does not resolve
\* against a Series that has rows.
Table(m, r) ==
  IF m.s.len > 0
  THEN LET lim == Limits(r, m.s.len) IN
       IF lim.err THEN [out |-> "panic", data |-> <<>>]
       ELSE [out |-> "ok",
             data |-> [i \in 1..(lim.end - lim.start + 1) |->
                         Value(m, lim.start + i - 1)]]
  ELSE [out |-> "ok", data |-> <<>>]

\* ------------------------------------------------------------------ forecast

\* alpha is alphaNum / AlphaDen.
AlphaDen == 2

\* SimpleExponentialSmoothing up to its loops: the error it returns, or "".
sesValidate(m, alphaNum, mm, r) ==
  LET count == m.s.len
      lim == Limits(r, count)
  IN IF count = 0 THEN "no values in series range"
     ELSE IF lim.err THEN "range"
     ELSE IF lim.end - lim.start < 1 THEN "no values in series range"
     ELSE IF mm <= 0 THEN "m must be greater than 0"
     ELSE IF alphaNum < 0 \/ alphaNum > AlphaDen THEN "alpha must be between [0,1]"
     ELSE ""

\* The check of SimpleExponentialSmoothing that fails, or "".
sesFailed(m, alphaNum, mm, r) ==
  LET count == m.s.len
      lim == Limits(r, count)
  IN IF count = 0 THEN "count == 0"
     ELSE IF lim.err THEN "err != nil"
     ELSE IF lim.end - lim.start < 1 THEN "end-start < 1"
     ELSE IF mm <= 0 THEN "m <= 0"
     ELSE IF alphaNum < 0 \/ alphaNum > AlphaDen THEN "alpha < 0 || alpha > 1"
     ELSE ""

\* A float64 of the forecast: n / AlphaDen^e, or NaN.  The values of the model
\* and alpha are dyadic, so the float64 arithmetic of the loops is exact.
RECURSIVE Pow(_, _)
Pow(b, e) == IF e = 0 THEN 1 ELSE b * Pow(b, e - 1)
NaNLevel == [nan |-> TRUE, n |-> 0, e |-> 0]
Level(x) == IF isNaN(x) THEN NaNLevel ELSE [nan |-> FALSE, n |-> x, e |-> 0]

\* alpha*xt + (1-alpha)*st
smooth(alphaNum, xt, st) ==
  IF isNaN(xt) \/ st.nan THEN NaNLevel
  ELSE [nan |-> FALSE,
        n |-> alphaNum * xt * Pow(AlphaDen, st.e) + (AlphaDen - alphaNum) * st.n,
        e |-> st.e + 1]

\* ctx.Err(): nil ("") until the context is cancelled, then the reason.
ctxNeverDone(c) == ""
ctxErr(c) == c

\* No call of SimpleExponentialSmoothing yet.  seen: the ctx.Err() the call
\* got that was not nil; why: the check that failed; prev: why and err of the
\* call before this one.
NoForecast ==
  [pc |-> "idle", alphaNum |-> 0, m |-> 0, start |-> 0, end |-> 0, i |-> 0,
   k |-> 0, st |-> Level(0), forecast |-> <<>>, out |-> "", err |-> "",
   values |-> <<>>, nilCount |-> 0, name |-> "", seen |-> "", why |-> "",
   prev |-> [why |-> "", err |-> ""]]

\* return nil, err
sesFail(c, e) == [c EXCEPT !.pc = "return", !.out = "error", !.err = e]

\* fdf := NewSeriesFloat64("forecast", nil); fdf.Values = forecast; return fdf, nil
sesReturn(c) ==
  [c EXCEPT !.pc = "return", !.out = "series", !.values = c.forecast,
            !.nilCount = 0, !.name = "forecast"]

\* The call, up to the first loop.  The caller passes a context that is live
\* or already cancelled.
MaxHorizon == 2
SESCall ==
  /\ ses.pc = "idle"
  /\ ser["src"].live /\ kind = "float64"
  /\ \E r \in Ranges(ser["src"].len) : \E alphaNum \in (-1)..(AlphaDen + 1) :
     \E mm \in 0..MaxHorizon : \E c \in {"", "context canceled"} :
        LET e == sesValidate(Mem("src"), alphaNum, mm, r)
            lim == Limits(r, ser["src"].len)
            c0 == [NoForecast EXCEPT !.alphaNum = alphaNum, !.m = mm,
                                     !.why = sesFailed(Mem("src"), alphaNum, mm, r),
                                     !.prev = ses.prev]
        IN /\ ctx' = c
           /\ ses' = IF e # "" THEN sesFail(c0, e)
                     ELSE [c0 EXCEPT !.pc = "history", !.start = lim.start,
                                     !.end = lim.end, !.i = lim.start]
  /\ UNCHANGED <<kind, heap, ser, last, lock, thr>>

sesStopsEarly(c) ==
  IF c.pc = "history" /\ c.i < c.end + 1 THEN c
  ELSE IF c.k < c.m - 1 THEN [c EXCEPT !.pc = "forecast"]
  ELSE sesReturn(c)

\* The loops are over: the second loop starts, or the call returns.
sesNext(c) ==
  IF c.pc = "history" /\ c.i < c.end + 1 THEN c
  ELSE IF c.k < c.m THEN [c EXCEPT !.pc = "forecast"]
  ELSE sesReturn(c)

\* One iteration of `for i := start; i < end+1; i++`.
SESHistoryStep ==
  /\ ses.pc = "history"
  /\ LET err == ctxErr(ctx)
         xt == Value(Mem("src"), ses.i)
         st == IF ses.i = ses.start THEN Level(xt)
               ELSE smooth(ses.alphaNum, xt, ses.st)
     IN ses' = IF err # "" THEN sesFail([ses EXCEPT !.seen = err], err)
               ELSE sesNext([ses EXCEPT !.st = st, !.i = @ + 1])
  /\ UNCHANGED <<kind, heap, ser, last, lock, thr, ctx>>

\* One iteration of `for range iter.N(m)`.
SESForecastStep ==
  /\ ses.pc = "forecast"
  /\ LET err == ctxErr(ctx)
         st == smooth(ses.alphaNum, Value(Mem("src"), ses.end), ses.st)
     IN ses' = IF err # "" THEN sesFail([ses EXCEPT !.seen = err], err)
               ELSE sesNext([ses EXCEPT !.st = st, !.k = @ + 1,
                                        !.forecast = Append(@, st)])
  /\ UNCHANGED <<kind, heap, ser, last, lock, thr, ctx>>

\* The caller has the result, and is ready for another call.
SESDone ==
  /\ ses.pc = "return"
  /\ ses' = [NoForecast EXCEPT !.prev = [why |-> ses.why, err |-> ses.err]]
  /\ ctx' = ""
  /\ UNCHANGED <<kind, heap, ser, last, lock, thr>>

\* The owner of the context cancels it, at any moment.
Cancel ==
  /\ ses.pc \in {"history", "forecast"}
  /\ ctx = ""
  /\ ctx' = "context canceled"
  /\ UNCHANGED <<kind, heap, ser, last, lock, thr, ses>>

\* ------------------------------------------------------------------ calls

\* What `last` holds before any call: the Series was just constructed.
NoCall ==
  [op |-> "NewSeries", t |-> "src", row |-> 0, row2 |-> 0, val |-> Nil,
   typ |-> "", batch |-> <<>>, desc |-> FALSE, ret |-> 0, out |-> "ok",
   err |-> "", cells |-> <<>>, range |-> [all |-> TRUE, start |-> 0, end |-> 0]]

\* A Series that does not exist (yet).
NoSeries == [live |-> FALSE, arr |-> 2, len |-> 0, nilCount |-> 0, name |-> "a"]

\* A thread that is in no call; user says whether it holds the lock of src
\* through Lock().
NoSnap == [h |-> [a \in Arrays |-> <<>>], s |-> NoSeries, na |-> 1]
NoCopy == [out |-> "", rows |-> <<>>, nilCount |-> 0, name |-> ""]
Idle(user) ==
  [pc |-> "idle", op |-> "", dontLock |-> FALSE, locked |-> FALSE, user |-> user,
   acq |-> 0, snap |-> NoSnap, row |-> 0, val |-> Nil, ret |-> 0,
   lim |-> [start |-> 0, end |-> 0], copy |-> NoCopy, seen |-> {},
   fault |-> FALSE]

\* How far nilCount is behind the number of absent rows.
Drift(m) == CountNil(Rows(m.h, m.s)) - m.s.nilCount

\* The bounds of a run: the longest Series and batch, the spare capacity of an
\* allocation, and whether `last` keeps the arguments of the call.
SeqRun == [maxLen |-> MaxLen, maxBatch |-> MaxBatch, spare |-> MaxSpare, brief |-> FALSE]
BatchRun == [SeqRun EXCEPT !.maxLen = MaxLen + MaxBatch]
CopyRun == [maxLen |-> CopyLen, maxBatch |-> MaxBatch, spare |-> CopySpare, brief |-> TRUE]

\* The call on Series t ends: its memory is written back and `last` says what
\* was called.
Commit(t, m, rec, run) ==
  /\ Drift(m) <= MaxDrift
  /\ heap' = m.h
  /\ ser' = [ser EXCEPT ![t] = m.s]
  /\ last' = IF run.brief THEN [NoCall EXCEPT !.op = rec.op, !.t = t]
             ELSE [rec EXCEPT !.t = t]
  /\ UNCHANGED <<ctx, ses, kind, lock, thr>>

CallPrepend(t, run) ==
  /\ ser[t].live /\ ser[t].len < run.maxLen
  /\ \E val \in Vals : \E nc \in NewCaps(Mem(t), ser[t].len, 1, run.spare) :
        Commit(t, Prepend(Mem(t), val, nc),
               [NoCall EXCEPT !.op = "Prepend", !.val = val], run)

\* Append in default mode: row := s.NRows(Options{DontLock: true}); insert.
CallAppend(t, run) ==
  /\ ser[t].live /\ ser[t].len < run.maxLen
  /\ \E val \in Vals : \E nc \in NewCaps(Mem(t), ser[t].len, 1, run.spare) :
        LET row == NRows(Mem(t)) IN
        Commit(t, insert(Mem(t), row, val, nc),
               [NoCall EXCEPT !.op = "Append", !.val = val, !.row = row,
                              !.ret = row], run)

CallInsert(t, run) ==
  /\ ser[t].live /\ ser[t].len < run.maxLen
  /\ \E val \in Vals : \E row \in 0..ser[t].len :
     \E nc \in NewCaps(Mem(t), ser[t].len, 1, run.spare) :
        Commit(t, insert(Mem(t), row, val, nc),
               [NoCall EXCEPT !.op = "Insert", !.val = val, !.row = row], run)

CallInsertBatch(t, run) ==
  /\ ser[t].live
  /\ \E typ \in BatchTypes(kind) :
     \E V \in Batches(typ, Min(run.maxBatch, run.maxLen - ser[t].len)) :
     \E row \in 0..ser[t].len :
     \E nc \in NewCaps(Mem(t), row, Len(V) + ser[t].len - row, run.spare) :
        Commit(t, insertBatch(Mem(t), row, typ, V, nc),
               [NoCall EXCEPT !.op = "InsertBatch", !.typ = typ, !.batch = V,
                              !.row = row], run)

CallRemove(t, run) ==
  /\ ser[t].live
  /\ \E row \in 0..(ser[t].len - 1) :
        Commit(t, Remove(Mem(t), row), [NoCall EXCEPT !.op = "Remove", !.row = row], run)

CallUpdate(t, run) ==
  /\ ser[t].live
  /\ \E row \in 0..(ser[t].len - 1) : \E val \in Vals :
        Commit(t, Update(Mem(t), row, val),
               [NoCall EXCEPT !.op = "Update", !.row = row, !.val = val], run)

CallSwap(t, run) ==
  /\ ser[t].live
  /\ \E row1 \in 0..(ser[t].len - 1) : \E row2 \in 0..(ser[t].len - 1) :
        Commit(t, Swap(Mem(t), row1, row2),
               [NoCall EXCEPT !.op = "Swap", !.row = row1, !.row2 = row2], run)

CallSort(t, run) ==
  /\ ser[t].live
  /\ \E sortDesc \in BOOLEAN :
        Commit(t, Sort(Mem(t), sortDesc),
               [NoCall EXCEPT !.op = "Sort", !.desc = sortDesc,
                              !.cells = SortedCells(Mem(t), sortDesc)], run)

\* Copy(r) of src: the copy becomes (or replaces) cpy.
CallCopy(run) ==
  /\ ser["src"].live
  /\ \E r \in Ranges(ser["src"].len) : \E spare \in 0..run.spare :
        LET lim == Limits(r, ser["src"].len)
            c == Copy(Mem("src"), r, FreshArr("cpy"),
                      lim.end - lim.start + 1 + spare) IN
        /\ heap' = c.h
        /\ ser' = IF c.out = "ok" THEN [ser EXCEPT !["cpy"] = c.s] ELSE ser
        /\ last' = [NoCall EXCEPT !.op = "Copy", !.range = r, !.out = c.out]
        /\ UNCHANGED <<ctx, ses, kind, lock, thr>>

CallTable(t) ==
  /\ ser[t].live
  /\ \E r \in Ranges(ser[t].len) :
        /\ last' = [NoCall EXCEPT !.op = "Table", !.t = t, !.range = r,
                                  !.out = Table(Mem(t), r).out]
        /\ UNCHANGED <<ctx, ses, kind, heap, ser, lock, thr>>

\* SimpleExponentialSmoothing(ctx, s, alpha, m, r) on a SeriesFloat64: what it
\* returns when it is left to run with a context that is never cancelled.
CallSES(t) ==
  /\ ser[t].live /\ kind = "float64"
  /\ \E r \in Ranges(ser[t].len) : \E alphaNum \in (-1)..(AlphaDen + 1) :
     \E mm \in 0..MaxHorizon :
        LET e == sesValidate(Mem(t), alphaNum, mm, r) IN
        /\ last' = [NoCall EXCEPT !.op = "SimpleExponentialSmoothing", !.t = t,
                                  !.range = r, !.err = e,
                                  !.out = IF e = "" THEN "ok" ELSE "error"]
        /\ UNCHANGED <<ctx, ses, kind, heap, ser, lock, thr>>

\* ------------------------------------------------------------------ Spec

\* The Series after construction: any Size, Capacity and initial values.
InitSeries(maxLen, spare) ==
  /\ kind \in Kinds
  /\ \E size \in 0..maxLen : \E capacity \in 0..(maxLen + spare) :
     \E vals \in SeqsUpTo(Vals, maxLen) :
     \E nc \in Len(vals)..(Len(vals) + spare) :
        LET m == NewSeries(kind, [a \in Arrays |-> <<>>], 1, "a", size,
                           capacity, vals, nc)
        IN /\ heap = m.h
           /\ ser = [t \in Series |-> IF t = "src" THEN m.s ELSE NoSeries]
  /\ last = NoCall
  /\ lock = [w |-> NoThread, r |-> {}]
  /\ thr = [t \in Threads |-> Idle(FALSE)]
  /\ ctx = ""
  /\ ses = NoForecast

Init == InitSeries(MaxLen, MaxSpare)

Next ==
  \/ CallPrepend("src", SeqRun)
  \/ CallAppend("src", SeqRun)
  \/ CallInsert("src", SeqRun)
  \/ CallInsertBatch("src", SeqRun)
  \/ CallRemove("src", SeqRun)
  \/ CallUpdate("src", SeqRun)
  \/ CallSwap("src", SeqRun)
  \/ CallSort("src", SeqRun)

Spec == Init /\ [][Next]_vars

\* Calls that panic, the caller recovering: `last` says which call it was, and
\* the Series is what the call left behind.
BadVals == {v : v \in Vals \cup {Uncoercible}}
RecoverPrepend(t, run) ==
  /\ ser[t].live /\ ser[t].len < run.maxLen
  /\ \E nc \in NewCaps(Mem(t), ser[t].len, 1, run.spare) :
        Commit(t, PrependRecovered(Mem(t), Uncoercible, nc),
               [NoCall EXCEPT !.op = "Prepend", !.val = Uncoercible,
                              !.out = "panic"], run)

RecoverAppend(t, run) ==
  /\ ser[t].live /\ ser[t].len < run.maxLen
  /\ \E nc \in NewCaps(Mem(t), ser[t].len, 1, run.spare) :
        LET row == NRows(Mem(t)) IN
        Commit(t, insertRecovered(Mem(t), row, Uncoercible, nc),
               [NoCall EXCEPT !.op = "Append", !.val = Uncoercible, !.row = row,
                              !.out = "panic"], run)

RecoverInsert(t, run) ==
  /\ ser[t].live /\ ser[t].len < run.maxLen
  /\ \E val \in BadVals : \E row \in (-1)..(ser[t].len + 1) :
     \E nc \in NewCaps(Mem(t), ser[t].len, 1, run.spare) :
        /\ insertPanics(Mem(t), row, val)
        /\ Commit(t, insertRecovered(Mem(t), row, val, nc),
                  [NoCall EXCEPT !.op = "Insert", !.val = val, !.row = row,
                                 !.out = "panic"], run)

RecoverUpdate(t, run) ==
  /\ ser[t].live
  /\ \E val \in BadVals : \E row \in (-1)..ser[t].len :
        /\ UpdatePanics(Mem(t), row, val)
        /\ Commit(t, UpdateRecovered(Mem(t), row, val),
                  [NoCall EXCEPT !.op = "Update", !.val = val, !.row = row,
                                 !.out = "panic"], run)

\* The sequential runs with calls that panic and are recovered.
InitRecover == InitSeries(MaxLen, MaxSpare)
NextRecover ==
  \/ Next
  \/ RecoverPrepend("src", SeqRun)
  \/ RecoverAppend("src", SeqRun)
  \/ RecoverInsert("src", SeqRun)
  \/ RecoverUpdate("src", SeqRun)
SpecRecover == InitRecover /\ [][NextRecover]_vars

\* Sort alone, on every Series the constructor builds, up to one row longer.
SortLen == MaxLen + 1
InitSort == InitSeries(SortLen, MaxSpare)
NextSort == CallSort("src", SeqRun)
SpecSort == InitSort /\ [][NextSort]_vars

\* A batch Insert into every Series the constructor builds.
InitBatch == InitSeries(MaxLen, MaxSpare)
NextBatch ==
  /\ last.op = "NewSeries"
  /\ CallInsertBatch("src", BatchRun)
SpecBatch == InitBatch /\ [][NextBatch]_vars

\* A Series and its copy.  Copy, Table and SimpleExponentialSmoothing are called
\* on every Series the constructor builds, with every Range; after a Copy,
\* every sequence of mutating calls is made on the copy, or on the source.
Mutators == {"Prepend", "Append", "Insert", "InsertBatch", "Remove", "Update",
             "Swap", "Sort"}
InitCopy == InitSeries(CopyLen, CopySpare)
MutateEither(t) ==
  /\ ser["cpy"].live
  /\ last.op = "Copy" \/ (last.op \in Mutators /\ last.t = t)
  /\ \/ CallPrepend(t, CopyRun)
     \/ CallAppend(t, CopyRun)
     \/ CallInsert(t, CopyRun)
     \/ CallInsertBatch(t, CopyRun)
     \/ CallRemove(t, CopyRun)
     \/ CallUpdate(t, CopyRun)
     \/ CallSwap(t, CopyRun)
     \/ CallSort(t, CopyRun)
NextCopy ==
  \/ last.op = "NewSeries" /\ CallCopy(CopyRun)
  \/ last.op = "NewSeries" /\ CallTable("src")
  \/ last.op = "NewSeries" /\ CallSES("src")
  \/ \E t \in Series : MutateEither(t)
SpecCopy == InitCopy /\ [][NextCopy]_vars

\* The constructor, called with every Size, Capacity and initial values; `last`
\* keeps Size (row), Capacity (row2) and the values (batch).
CallNewSeries(t) ==
  /\ ~ser[t].live
  /\ \E size \in 0..MaxLen : \E capacity \in 0..(MaxLen + MaxSpare) :
     \E vals \in SeqsUpTo(Vals, MaxLen) :
     \E nc \in Len(vals)..(Len(vals) + MaxSpare) :
        LET m == NewSeries(kind, heap, HomeArr(t), "a", size, capacity, vals, nc)
        IN /\ heap' = m.h
           /\ ser' = [ser EXCEPT ![t] = m.s]
           /\ last' = [NoCall EXCEPT !.t = t, !.row = size, !.row2 = capacity,
                                     !.batch = vals]
  /\ UNCHANGED <<ctx, ses, kind, lock, thr>>
InitNew == InitSeries(0, 0)
NextNew == CallNewSeries("cpy")
SpecNew == InitNew /\ [][NextNew]_vars

\* The comparison functions, called on every three values a, b, c; `last` keeps
\* the values (batch) and what the calls returned (cells).
MaxVal == 3
CompareVals == {v : v \in {Nil} \cup 0..MaxVal}
CallCompare ==
  /\ \E a \in CompareVals : \E b \in CompareVals : \E c \in CompareVals :
        last' = [NoCall EXCEPT
                   !.op = "IsLessThanFunc", !.batch = <<a, b, c>>,
                   !.cells = <<IsLessThanFunc(a, b), IsEqualFunc(a, b),
                               IsLessThanFunc(b, a), IsLessThanFunc(a, a),
                               IsLessThanFunc(b, c), IsLessThanFunc(a, c)>>]
  /\ UNCHANGED <<ctx, ses, kind, heap, ser, lock, thr>>
InitCompare == InitSeries(0, 0)
NextCompare == CallCompare
SpecCompare == InitCompare /\ [][NextCompare]_vars

\* SimpleExponentialSmoothing on a SeriesFloat64, step by step, under a context
\* that its owner may cancel at any moment.  The Series are the short ones and
\* one of five observations; between two forecasts the caller may remove the
\* only row of a Series.
SESExample == <<10, 12, 13, 12, 15>>
InitSES ==
  /\ kind = "float64"
  /\ \E vals \in SeqsUpTo(Vals, MaxLen) \cup {SESExample} :
        LET m == NewSeries(kind, [a \in Arrays |-> <<>>], 1, "a", 0, 0, vals,
                           Len(vals))
        IN /\ heap = m.h
           /\ ser = [t \in Series |-> IF t = "src" THEN m.s ELSE NoSeries]
  /\ last = NoCall
  /\ lock = [w |-> NoThread, r |-> {}]
  /\ thr = [t \in Threads |-> Idle(FALSE)]
  /\ ctx = ""
  /\ ses = NoForecast
NextSES ==
  \/ SESCall
  \/ SESHistoryStep
  \/ SESForecastStep
  \/ SESDone
  \/ Cancel
  \/ /\ ses.pc = "idle" /\ ser["src"].len = 1
     /\ CallRemove("src", CopyRun)
SpecSES == InitSES /\ [][NextSES]_vars

\* ------------------------------------------------------------------ threads

\* The longest Series of the runs with several threads, and the spare
\* capacity their allocations may be given.
ConcLen == 2
ConcSpare == 0
\* How many writes of other threads one Copy may overlap.
MaxOverlap == 1

Names == {"a", "b"}

\* The methods that take the lock for writing, those that take it for
\* reading, and those that accept Options.
Writers == {"Rename", "Prepend", "Append", "Insert", "Remove", "Update", "Swap", "Sort"}
Readers == {"Name", "NRows", "Value", "ValueString", "Table", "String", "ContainsNil"}
WithOptions == {"NRows", "Value", "ValueString", "Prepend", "Append", "Insert",
                "Remove", "Update", "Swap", "Sort"}

\* A method that never takes the lock.
neverLocks(dontLock) == FALSE
\* len(options) == 0 || (len(options) > 0 && !options[0].DontLock)
TakesLock(dontLock) == ~dontLock

\* A Lock() that does not wait for the holder.
lockAdmitsAll(lk) == TRUE
\* sync.RWMutex: Lock() goes through when nobody holds the lock, RLock() when
\* nobody holds it for writing.
CanLock(lk) == lk.w = NoThread /\ lk.r = {}
CanRLock(lk) == lk.w = NoThread

\* What a Copy could return: the rows, nilCount and name of the source.
SrcView(h, s) == <<Rows(h, s), s.nilCount, s.name>>
CopyView(t) == <<thr[t].copy.rows, thr[t].copy.nilCount, thr[t].copy.name>>

\* The calls the runs make: a growing call only while the Series is short
\* enough, a Prepend only while nilCount is not behind already.
Room(op) ==
  /\ op \in {"Prepend", "Append", "Insert"} => ser["src"].len < ConcLen
  /\ op = "Prepend" => Drift(Mem("src")) < MaxDrift

\* A Copy has overlapped as many writes as the runs let it, or is returning
\* its result: until it has returned, no thread writes and no thread starts a
\* call.
Overlapped ==
  \E u \in Threads :
     /\ thr[u].op = "Copy"
     /\ thr[u].pc = "return" \/ Cardinality(thr[u].seen) > MaxOverlap

\* Lock() and Unlock() called by the owner of the thread.
UserLock(t) ==
  /\ thr[t].pc = "idle" /\ ~thr[t].user
  /\ CanLock(lock)
  /\ lock' = [lock EXCEPT !.w = t]
  /\ thr' = [thr EXCEPT ![t] = Idle(TRUE)]
  /\ UNCHANGED <<ctx, ses, kind, heap, ser, last>>

UserUnlock(t) ==
  /\ thr[t].pc = "idle" /\ thr[t].user
  /\ lock' = [lock EXCEPT !.w = NoThread]
  /\ thr' = [thr EXCEPT ![t] = Idle(FALSE)]
  /\ UNCHANGED <<ctx, ses, kind, heap, ser, last>>

\* A thread calls one of the methods `ops`, with DontLock or not as `modes`
\* allows: with DontLock only while it holds the lock through Lock(), and in
\* default mode only while it does not.  Copy takes no Options and no lock,
\* and is called either way.
Call(t, ops, modes) ==
  /\ thr[t].pc = "idle"
  /\ ~Overlapped
  /\ \E op \in ops : \E dontLock \in modes :
        /\ dontLock => (op \in WithOptions /\ thr[t].user /\ Room(op))
        /\ (~dontLock /\ op # "Copy") => ~thr[t].user
        /\ thr' = [thr EXCEPT ![t] =
                     [@ EXCEPT !.op = op, !.dontLock = dontLock,
                               !.pc = IF op = "Copy" THEN "limits" ELSE "enter",
                               !.seen = IF op = "Copy"
                                        THEN {SrcView(heap, ser["src"])} ELSE {}]]
  /\ UNCHANGED <<ctx, ses, kind, heap, ser, last, lock>>

\* Swap(row, row): returns before the lock is looked at.
SwapSameRow(t) ==
  /\ thr[t].pc = "enter" /\ thr[t].op = "Swap"
  /\ thr' = [thr EXCEPT ![t] = [@ EXCEPT !.pc = "skip"]]
  /\ UNCHANGED <<ctx, ses, kind, heap, ser, last, lock>>

\* The head of a method: s.lock.Lock() or s.lock.RLock() unless DontLock.
Enter(t) ==
  /\ thr[t].pc = "enter"
  /\ Room(thr[t].op)
  /\ LET op == thr[t].op
         takes == TakesLock(thr[t].dontLock)
     IN /\ takes => IF op \in Writers THEN CanLock(lock) ELSE CanRLock(lock)
        /\ lock' = IF ~takes THEN lock
                   ELSE IF op \in Writers THEN [lock EXCEPT !.w = t]
                   ELSE [lock EXCEPT !.r = @ \cup {t}]
        /\ thr' = [thr EXCEPT ![t] =
                     [@ EXCEPT !.pc = IF op = "Append" THEN "nrows" ELSE "read",
                               !.locked = takes,
                               !.acq = IF takes THEN @ + 1 ELSE @]]
  /\ UNCHANGED <<ctx, ses, kind, heap, ser, last>>

\* Append: row := s.NRows(Options{DontLock: locked}).  NRows takes the lock
\* for reading unless DontLock; its RLock and RUnlock are within this step.
AppendNRows(t) ==
  /\ thr[t].pc = "nrows"
  /\ LET takes == TakesLock(thr[t].locked)
     IN /\ takes => CanRLock(lock)
        /\ thr' = [thr EXCEPT ![t] =
                     [@ EXCEPT !.pc = "write", !.row = NRows(Mem("src")),
                               !.snap = Mem("src"),
                               !.acq = IF takes THEN @ + 1 ELSE @]]
  /\ UNCHANGED <<ctx, ses, kind, heap, ser, last, lock>>

\* What a reader returns; 0 when the row it asks for does not exist.
ReadResults(op, m) ==
  CASE op = "Name" -> {m.s.name}
    [] op = "NRows" -> {NRows(m)}
    [] op \in {"Value", "ValueString"} ->
         IF m.s.len = 0 THEN {0} ELSE {Value(m, row) : row \in 0..(m.s.len - 1)}
    [] op \in {"Table", "String"} -> {Rows(m.h, m.s)}
    [] op = "ContainsNil" -> {ContainsNil(m)}

\* The body of a method reads the fields: a reader computes its result, a
\* writer has read what it is about to change.
BodyRead(t) ==
  /\ thr[t].pc = "read"
  /\ IF thr[t].op \in Readers
     THEN \E ret \in ReadResults(thr[t].op, Mem("src")) :
             thr' = [thr EXCEPT ![t] = [@ EXCEPT !.pc = "return", !.ret = ret]]
     ELSE thr' = [thr EXCEPT ![t] = [@ EXCEPT !.pc = "write", !.snap = Mem("src")]]
  /\ UNCHANGED <<ctx, ses, kind, heap, ser, last, lock>>

\* What a writer may do to the Series it has read, with the arguments it is
\* called with: the new memory, the value passed and the value returned.  No
\* outcome when the Series has no row the call could name.
Outcome(m, val, ret) == [m |-> m, val |-> val, ret |-> ret]
Outcomes(op, m, row0) ==
  LET rows == 0..(m.s.len - 1)
      caps == NewCaps(m, m.s.len, 1, ConcSpare)
  IN CASE op = "Rename" ->
            {Outcome([m EXCEPT !.s.name = n], Nil, 0) : n \in Names}
       [] op = "Prepend" ->
            {Outcome(Prepend(m, v, nc), v, 0) : v \in Vals, nc \in caps}
       [] op = "Append" ->
            {Outcome(insert(m, row0, v, nc), v, row0) : v \in Vals, nc \in caps}
       [] op = "Insert" ->
            {Outcome(insert(m, row, v, nc), v, 0) :
               v \in Vals, row \in 0..m.s.len, nc \in caps}
       [] op = "Remove" -> {Outcome(Remove(m, row), Nil, 0) : row \in rows}
       [] op = "Update" ->
            {Outcome(Update(m, row, v), v, 0) : row \in rows, v \in Vals}
       [] op = "Swap" ->
            {Outcome(Swap(m, p[1], p[2]), Nil, 0) :
               p \in {q \in rows \X rows : q[1] # q[2]}}
       [] op = "Sort" -> {Outcome(Sort(m, sortDesc), Nil, 0) : sortDesc \in BOOLEAN}

\* The body of a writer writes the fields; a Copy in progress in another
\* thread could from now on return what the source has become.  A call that
\* names a row out of range panics and writes nothing.
BodyWrite(t) ==
  /\ thr[t].pc = "write"
  /\ ~Overlapped
  /\ LET outs == Outcomes(thr[t].op, thr[t].snap, thr[t].row) IN
     IF outs = {}
     THEN /\ thr' = [thr EXCEPT ![t] = [@ EXCEPT !.pc = "return", !.snap = NoSnap]]
          /\ UNCHANGED <<heap, ser>>
     ELSE \E o \in outs :
          /\ heap' = [heap EXCEPT ![o.m.s.arr] = o.m.h[o.m.s.arr]]
          /\ ser' = [ser EXCEPT !["src"] = o.m.s]
          /\ thr' = [u \in Threads |->
                       IF u = t
                       THEN [thr[t] EXCEPT !.pc = "return", !.snap = NoSnap,
                                           !.val = o.val, !.ret = o.ret]
                       ELSE IF thr[u].op = "Copy" /\ thr[u].pc # "return"
                       THEN [thr[u] EXCEPT !.seen = @ \cup {SrcView(o.m.h, o.m.s)}]
                       ELSE thr[u]]
  /\ UNCHANGED <<ctx, ses, kind, last, lock>>

\* Copy(): len(s.Values) is read, and the limits of Range{} computed from it.
CopyLimits(t) ==
  /\ thr[t].pc = "limits"
  /\ LET n == ser["src"].len
         lim == Limits(NoRange, n)
     IN thr' = [thr EXCEPT ![t] =
                  IF n = 0 THEN [@ EXCEPT !.pc = "meta"]
                  ELSE [@ EXCEPT !.pc = "slice",
                                 !.lim = [start |-> lim.start, end |-> lim.end]]]
  /\ UNCHANGED <<ctx, ses, kind, heap, ser, last, lock>>

\* Copy(): x := s.Values[start : end+1] is taken of the slice as it is now (a
\* panic when end+1 is beyond its capacity) and copied.
CopySlice(t) ==
  /\ thr[t].pc = "slice"
  /\ LET lim == thr[t].lim
         c == copySlice(Mem("src"), lim.start, lim.end, 2, lim.end - lim.start + 1)
     IN thr' = [thr EXCEPT ![t] =
                  IF lim.end + 1 > Cap(heap, ser["src"])
                  THEN [@ EXCEPT !.pc = "return", !.copy.out = "panic"]
                  ELSE [@ EXCEPT !.pc = "meta", !.copy.rows = c.h[c.arr]]]
  /\ UNCHANGED <<ctx, ses, kind, heap, ser, last, lock>>

\* Copy(): name and nilCount are read into the new Series.
CopyMeta(t) ==
  /\ thr[t].pc = "meta"
  /\ thr' = [thr EXCEPT ![t] =
               [@ EXCEPT !.pc = "return", !.copy.out = "ok",
                         !.copy.name = ser["src"].name,
                         !.copy.nilCount = ser["src"].nilCount]]
  /\ UNCHANGED <<ctx, ses, kind, heap, ser, last, lock>>

\* The method returns: the deferred Unlock or RUnlock runs if the lock was
\* taken.
unlockUnlessFault(lk, c, t) ==
  IF ~c.locked \/ c.fault THEN lk
  ELSE IF c.op \in Writers THEN [lk EXCEPT !.w = NoThread]
  ELSE [lk EXCEPT !.r = @ \ {t}]

\* defer s.lock.Unlock() / defer s.lock.RUnlock(): runs when the method
\* returns and when it panics.
deferredUnlock(lk, c, t) ==
  IF ~c.locked THEN lk
  ELSE IF c.op \in Writers THEN [lk EXCEPT !.w = NoThread]
  ELSE [lk EXCEPT !.r = @ \ {t}]

Exit(t) ==
  /\ thr[t].pc \in {"return", "skip"}
  /\ lock' = deferredUnlock(lock, thr[t], t)
  /\ thr' = [thr EXCEPT ![t] = Idle(thr[t].user)]
  /\ UNCHANGED <<ctx, ses, kind, heap, ser, last>>

\* The call panics in its body, the lock taken: Value, ValueString, Remove,
\* Update, Swap or Insert of a row out of range, Table of a Range that does not
\* resolve, or Prepend, Append, Insert or Update of a value that valToPointer
\* cannot coerce.  Prepend, Append and Insert have appended and shifted by
\* then, the other calls have written nothing; the deferred calls run next.
Panicking == {"Value", "ValueString", "Table", "Prepend", "Append", "Insert",
              "Remove", "Update", "Swap"}
\* What a panicking writer leaves of the Series it has read.
Leftovers(op, m, row0) ==
  LET caps == NewCaps(m, m.s.len, 1, ConcSpare)
      bad == {p \in ((-1)..(m.s.len + 1)) \X BadVals : insertPanics(m, p[1], p[2])}
  IN CASE op = "Prepend" -> {PrependRecovered(m, Uncoercible, nc) : nc \in caps}
       [] op = "Append" -> {insertRecovered(m, row0, Uncoercible, nc) : nc \in caps}
       [] op = "Insert" ->
            {insertRecovered(m, p[1], p[2], nc) : p \in bad, nc \in caps}
       [] OTHER -> {m}
Fault(t) ==
  /\ thr[t].op \in Panicking
  /\ thr[t].pc = IF thr[t].op \in Readers THEN "read" ELSE "write"
  /\ IF thr[t].op \in Readers
     THEN /\ thr' = [thr EXCEPT ![t] = [@ EXCEPT !.pc = "return", !.snap = NoSnap,
                                                 !.fault = TRUE]]
          /\ UNCHANGED <<heap, ser>>
     ELSE \E m \in Leftovers(thr[t].op, thr[t].snap, thr[t].row) :
          /\ Drift(m) <= MaxDrift
          /\ heap' = [heap EXCEPT ![m.s.arr] = m.h[m.s.arr]]
          /\ ser' = [ser EXCEPT !["src"] = m.s]
          /\ thr' = [thr EXCEPT ![t] = [@ EXCEPT !.pc = "return", !.snap = NoSnap,
                                                 !.fault = TRUE]]
  /\ UNCHANGED <<ctx, ses, kind, last, lock>>

\* The steps of a call that takes Options, or of Name, Rename, Table, String
\* and ContainsNil, after it is made.
Body(t) ==
  \/ SwapSameRow(t)
  \/ Enter(t)
  \/ AppendNRows(t)
  \/ BodyRead(t)
  \/ BodyWrite(t)
  \/ Exit(t)

\* Two threads calling the readers and writers of one Series in default mode.
InitConc == InitSeries(ConcLen, ConcSpare)
NextConc ==
  \E t \in Threads :
     \/ Call(t, {op : op \in Writers \cup Readers}, {FALSE})
     \/ Body(t)
SpecConc == InitConc /\ [][NextConc]_vars

\* A thread that takes the lock through Lock() and calls the methods with
\* DontLock, or calls them in default mode without it, next to a thread that
\* calls them in default mode.
InitLocked == InitSeries(ConcLen, ConcSpare)
NextLocked ==
  \/ UserLock("t1")
  \/ UserUnlock("t1")
  \/ Call("t1", WithOptions, BOOLEAN)
  \/ Call("t2", WithOptions, {FALSE})
  \/ \E t \in Threads : Body(t)
SpecLocked == InitLocked /\ [][NextLocked]_vars

\* Two threads calling the methods that lock in default mode, with arguments
\* that may make them panic.
Step(t) ==
  \/ SwapSameRow(t)
  \/ Enter(t)
  \/ AppendNRows(t)
  \/ BodyRead(t)
  \/ BodyWrite(t)
  \/ Fault(t)
  \/ Exit(t)
InitFault == InitSeries(ConcLen, ConcSpare)
NextFault ==
  \/ \E t \in Threads : Call(t, {op : op \in Writers \cup Readers}, {FALSE})
  \/ \E t \in Threads : SwapSameRow(t)
  \/ \E t \in Threads : Enter(t)
  \/ \E t \in Threads : AppendNRows(t)
  \/ \E t \in Threads : BodyRead(t)
  \/ \E t \in Threads : BodyWrite(t)
  \/ \E t \in Threads : Fault(t)
  \/ \E t \in Threads : Exit(t)
SpecFault == InitFault /\ [][NextFault]_vars

\* Swap alone, on the longer Series: t1 may hold the lock through Lock() and
\* swap under it, t2 swaps in default mode.
InitSwap == InitSeries(MaxLen, 0)
NextSwap ==
  \/ UserLock("t1")
  \/ UserUnlock("t1")
  \/ Call("t1", {"Swap"}, BOOLEAN)
  \/ Call("t2", {"Swap"}, {FALSE})
  \/ \E t \in Threads : SwapSameRow(t)
  \/ \E t \in Threads : Enter(t)
  \/ \E t \in Threads : BodyRead(t)
  \/ \E t \in Threads : BodyWrite(t)
  \/ \E t \in Threads : Exit(t)
SpecSwap == InitSwap /\ [][NextSwap]_vars

\* A thread that copies the Series, holding the lock through Lock() or not,
\* next to a thread that calls the writers in default mode.
InitRace == InitSeries(ConcLen, ConcSpare)
NextRace ==
  \/ UserLock("t1")
  \/ UserUnlock("t1")
  \/ Call("t1", {"Copy"}, {FALSE})
  \/ CopyLimits("t1")
  \/ CopySlice("t1")
  \/ CopyMeta("t1")
  \/ Exit("t1")
  \/ Call("t2", Writers, {FALSE})
  \/ Body("t2")
SpecRace == InitRace /\ [][NextRace]_vars

\* ------------------------------------------------------------------ claims

\* The absent rows of a Series come first / the present rows come first.
AbsentFirst(rows) ==
  \A i, j \in 1..Len(rows) : (isNaN(rows[i]) /\ ~isNaN(rows[j])) => i < j
PresentFirst(rows) ==
  \A i, j \in 1..Len(rows) : (~isNaN(rows[i]) /\ isNaN(rows[j])) => i < j
NonDecreasing(rows) ==
  \A i, j \in 1..Len(rows) :
     (i < j /\ ~isNaN(rows[i]) /\ ~isNaN(rows[j])) => rows[i] <= rows[j]
NonIncreasing(rows) ==
  \A i, j \in 1..Len(rows) :
     (i < j /\ ~isNaN(rows[i]) /\ ~isNaN(rows[j])) => rows[i] >= rows[j]

\* The rows a Sort was given, read back from the tags of the sorted cells.
SortInput ==
  [i \in 1..Len(last.cells) |->
     (CHOOSE c \in {last.cells[k] : k \in 1..Len(last.cells)} : c[2] = i - 1)[1]]
SortExample == <<3, Nil, 1, Nil>>

\* C1: after every sequence of successful mutating calls, nilCount equals the
\* number of absent rows in storage, so ContainsNil() is true exactly when
\* some row is absent.
NilCountMatchesStorage ==
  /\ ser["src"].nilCount = CountNil(RowsOf("src"))
  /\ ContainsNil(Mem("src")) <=> (\E i \in 1..ser["src"].len : isNaN(RowsOf("src")[i]))

SortStableBothWays ==
  last.op = "Sort" =>
    \A i, j \in 1..Len(last.cells) :
       (i < j /\ ~isNaN(last.cells[i][1]) /\ last.cells[i][1] = last.cells[j][1])
         => last.cells[i][2] < last.cells[j][2]

\* C10: Insert(row, batch) yields old[0..row-1], the batch in order, then
\* old[row..N-1]; the row count grows by the batch length and nilCount by the
\* number of absent entries in the batch.
BatchStep ==
  last'.op = "InsertBatch" =>
    LET old == RowsOf("src")
        N   == ser["src"].len
        row == last'.row
        V   == last'.batch
    IN /\ Rows(heap', ser'["src"]) = Cat(Cat(Slice(old, 1, row), V), Slice(old, row + 1, N))
       /\ ser'["src"].len = N + Len(V)
       /\ ser'["src"].nilCount = ser["src"].nilCount + CountNil(V)
BatchInsertSplices == [][BatchStep]_vars

\* A batch of 3 with 1 absent entry went into the middle of a Series and left
\* nilCount at 3.
BatchOfThreeInserted ==
  /\ last.op = "InsertBatch"
  /\ Len(last.batch) = 3 /\ CountNil(last.batch) = 1
  /\ ser["src"].nilCount = 3 /\ CountNil(RowsOf("src")) = 3
  /\ last.row > 0 /\ last.row + 3 < ser["src"].len

\* What a caller can see of a Series.
View(h, s) == <<Rows(h, s), s.len, s.nilCount>>

\* C4: Copy() with no Range returns the same rows as the source, and no later
\* mutating call on the copy changes the rows, the row count or nilCount of
\* the source, nor one on the source those of the copy.
CopyStep ==
  /\ (last'.op = "Copy" /\ last'.out = "ok" /\ last'.range.all) =>
        /\ ser'["cpy"].live
        /\ ser'["cpy"].len = ser["src"].len
        /\ Rows(heap', ser'["cpy"]) = RowsOf("src")
        /\ View(heap', ser'["src"]) = View(heap, ser["src"])
  /\ (last'.op \in Mutators /\ last'.t = "cpy") =>
        View(heap', ser'["src"]) = View(heap, ser["src"])
  /\ (last'.op \in Mutators /\ last'.t = "src") =>
        View(heap', ser'["cpy"]) = View(heap, ser["cpy"])
CopyIsIndependent == [][CopyStep]_vars

\* The copy of a two-row Series was changed and the source still has its rows.
CopyMutatedApart ==
  /\ last.op \in Mutators /\ last.t = "cpy"
  /\ ser["src"].len = 2
  /\ RowsOf("cpy") # RowsOf("src")

\* C6: a Range that does not resolve against a non-empty Series is reported
\* by Copy, Table and SimpleExponentialSmoothing as an error result, not as a
\* panic.
RangeErrorIsReturned ==
  (/\ last.op \in {"Copy", "Table", "SimpleExponentialSmoothing"}
   /\ ser["src"].len > 0
   /\ Limits(last.range, ser["src"].len).err)
    => last.out = "error"

\* A thread is in the body of a method: past the head that takes the lock,
\* and not yet past the deferred unlock.
InBody(t) == thr[t].pc \in {"nrows", "read", "write", "return"}
Writing(t) == InBody(t) /\ thr[t].op \in Writers
Reading(t) == InBody(t) /\ thr[t].op \in Readers

\* C2: a thread that holds the lock through Lock() and calls a method with
\* DontLock never attempts to take the lock again on an internal call path,
\* and returns without having taken it; a default-mode call takes the lock
\* exactly once (a Swap of a row with itself returns before the lock and is
\* left out).
DontLockNeverRelocks ==
  \A t \in Threads :
     /\ (thr[t].dontLock /\ thr[t].pc = "nrows") => ~TakesLock(thr[t].locked)
     /\ (thr[t].dontLock /\ thr[t].pc = "return") => thr[t].acq = 0
     /\ (~thr[t].dontLock /\ thr[t].pc = "return") => thr[t].acq = 1

\* C5 as stated: every Copy, whether its caller holds the lock or not, returns
\* the rows, nilCount and name the source had before or after a write that
\* overlapped it, never a mix (and never panics on a slice it computed from
\* an earlier length).
CopyNeverTorn ==
  \A t \in Threads :
     (thr[t].op = "Copy" /\ thr[t].pc = "return")
       => (thr[t].copy.out = "ok" /\ CopyView(t) \in thr[t].seen)

\* C5 as amended: Copy takes no lock itself; a Copy whose caller holds the
\* lock through Lock() for the whole call is overlapped by no write and
\* returns the rows, nilCount and name the source has during the call.
LockedCopyNeverTorn ==
  \A t \in Threads :
     /\ thr[t].op = "Copy" => (thr[t].acq = 0 /\ ~thr[t].locked)
     /\ (thr[t].op = "Copy" /\ thr[t].pc = "return" /\ thr[t].user)
          => /\ thr[t].copy.out = "ok"
             /\ thr[t].seen = {CopyView(t)}
             /\ CopyView(t) = SrcView(heap, ser["src"])

\* A thread holding the lock has copied a two-row Series while the other
\* thread waits at the head of a writer.
LockedCopyWhileWriterWaits ==
  \E t, u \in Threads :
     /\ thr[t].op = "Copy" /\ thr[t].pc = "return" /\ thr[t].user
     /\ Len(thr[t].copy.rows) = 2
     /\ thr[u].pc = "enter" /\ thr[u].op \in Writers

\* C8: while a writer is in its body no other thread is in the body of a
\* writer or of a reader, and what a writer writes it computes from the
\* Series as it is when it writes: the calls take effect one at a time, in
\* the order of their writes.
WritersExcludeAll ==
  \A a \in Threads :
     /\ Writing(a) => \A b \in Threads \ {a} : ~Writing(b) /\ ~Reading(b)
     /\ thr[a].pc = "write" =>
          /\ thr[a].snap = Mem("src")
          /\ thr[a].op = "Append" => thr[a].row = ser["src"].len

\* An Append is about to write while the Append of the other thread waits for
\* the lock.
AppendWaitsForAppend ==
  \E a, b \in Threads :
     /\ a # b
     /\ thr[a].op = "Append" /\ thr[a].pc = "write"
     /\ thr[b].op = "Append" /\ thr[b].pc = "enter"
     /\ lock.w = a

\* C9: Append(v) on a Series of N rows returns N, leaves rows 0..N-1 as they
\* were, makes the row count N+1, and Value(N) is then v; in default mode and
\* with DontLock under the caller's lock the call returns: it never waits for
\* a lock that its own thread holds.
AppendStep ==
  \A t \in Threads :
     (thr[t].op = "Append" /\ thr[t].pc = "write" /\ thr'[t].pc = "return") =>
        LET N == ser["src"].len IN
        /\ thr'[t].ret = N
        /\ ser'["src"].len = N + 1
        /\ Slice(Rows(heap', ser'["src"]), 1, N) = RowsOf("src")
        /\ Value([h |-> heap', s |-> ser'["src"], na |-> 1], N) = thr'[t].val
AppendReturnsRow ==
  /\ [][AppendStep]_vars
  /\ [](\A t \in Threads :
          (thr[t].op = "Append" /\ thr[t].pc = "nrows" /\ TakesLock(thr[t].locked))
            => lock.w # t)

\* C11: a step of SimpleExponentialSmoothing (historical or forecast) that is
\* about to start when the context is cancelled does not execute: the level,
\* the index and the forecasts stay as they are and the call returns
\* (nil, ctx.Err()); and a call that got a non-nil ctx.Err() returns no Series.
SESStep == SESHistoryStep \/ SESForecastStep
Stopped ==
  /\ ses'.pc = "return" /\ ses'.out = "error" /\ ses'.err = ctx
  /\ ses'.values = <<>>
  /\ ses'.st = ses.st /\ ses'.i = ses.i /\ ses'.k = ses.k
  /\ ses'.forecast = ses.forecast
CancelStopsForecast ==
  [][/\ SESStep /\ ctx # "" => Stopped
     /\ ses'.out = "series" => ses'.seen = "" /\ ses'.err = ""]_vars
CancelledMidForecast ==
  /\ ses.pc = "return" /\ ses.out = "error" /\ ses.err = "context canceled"
  /\ Len(ses.forecast) = 1 /\ ses.m = 2

\* C12: Swap(row, row) returns without taking the lock and without changing
\* anything, whoever holds the lock; Swap(row1, row2) of two distinct rows
\* exchanges those two rows and leaves every other row, the row count and
\* nilCount as they are.
SwapsRows(old, new, row1, row2) ==
  /\ Len(new) = Len(old)
  /\ new[row1 + 1] = old[row2 + 1] /\ new[row2 + 1] = old[row1 + 1]
  /\ \A i \in 1..Len(old) : i \notin {row1 + 1, row2 + 1} => new[i] = old[i]
SwapStep(t) ==
  /\ thr[t].op = "Swap" /\ thr[t].pc = "write" /\ thr'[t].pc = "return"
  /\ ser["src"].len >= 2
SwapExchangesTwoRows ==
  [][\A t \in Threads :
       /\ thr[t].op = "Swap" /\ thr'[t] # thr[t]
          /\ "skip" \in {thr[t].pc, thr'[t].pc}
            => /\ UNCHANGED <<heap, ser, lock>>
               /\ thr[t].pc \in {"enter", "skip"}
               /\ thr'[t].pc \in {"skip", "idle"}
               /\ thr[t].acq = 0 /\ ~thr[t].locked
       /\ SwapStep(t)
            => /\ \E row1, row2 \in 0..(ser["src"].len - 1) :
                     /\ row1 # row2
                     /\ SwapsRows(RowsOf("src"), Rows(heap', ser'["src"]), row1, row2)
               /\ ser'["src"].nilCount = ser["src"].nilCount
               /\ ser'["src"].len = ser["src"].len]_vars
SwapSameRowUnderLock ==
  /\ thr["t2"].op = "Swap" /\ thr["t2"].pc = "skip"
  /\ lock.w = "t1" /\ ser["src"].len = 3

\* C13: when a validation of SimpleExponentialSmoothing fails the call returns
\* (nil, error), and two calls that fail different validations among: no rows,
\* m <= 0, alpha outside [0,1], fewer than two points, return different errors.
FourFailures == {"count == 0", "end-start < 1", "m <= 0", "alpha < 0 || alpha > 1"}
RECURSIVE LevelAt(_, _, _, _)
LevelAt(x, alphaNum, start, i) ==
  IF i = start THEN Level(x[start + 1])
  ELSE smooth(alphaNum, x[i + 1], LevelAt(x, alphaNum, start, i - 1))
RECURSIVE Ahead(_, _, _, _, _)
Ahead(x, alphaNum, start, end, n) ==
  IF n = 0 THEN LevelAt(x, alphaNum, start, end)
  ELSE smooth(alphaNum, x[end + 1], Ahead(x, alphaNum, start, end, n - 1))
IsEighths(v, n) == ~v.nan /\ 8 * v.n = n * Pow(AlphaDen, v.e)
ExampleCall(c) ==
  /\ RowsOf("src") = SESExample /\ 2 * c.alphaNum = AlphaDen /\ c.m = 2
  /\ c.start = 0 /\ c.end = 4
ForecastOf(c) ==
  /\ c.why = "" /\ c.seen = ""
  /\ Len(c.values) = c.m
  /\ \A k \in 0..(c.m - 1) :
        c.values[k + 1] = Ahead(RowsOf("src"), c.alphaNum, c.start, c.end, k + 1)
  /\ ExampleCall(c) => IsEighths(c.values[1], 114) /\ IsEighths(c.values[2], 117)
ForecastFollowsRecursion ==
  [][/\ ses' # ses => UNCHANGED <<heap, ser>>
     /\ ses'.out = "series" => ForecastOf(ses')
     /\ (SESStep /\ ctx = "") => ses'.out # "error"
     /\ (ses.pc = "idle" /\ ses'.pc # "idle" /\ ses'.why = "")
          => ses'.pc = "history"]_vars
ExampleForecast ==
  /\ ses.pc = "return" /\ ses.out = "series" /\ ExampleCall(ses)
  /\ Len(ses.values) = 2

\* C15: the constructor called with pre-size S and k initial values builds a
\* Series of max(S, k) rows: row i < k holds the i-th initial value (absent
\* when it is nil), every row k <= i < S is absent, never a present zero, and
\* nilCount is the number of absent initial values plus max(S - k, 0).
Constructed == last.op = "NewSeries" /\ last.t = "cpy"
ConstructorPresizes ==
  Constructed =>
    LET S == last.row
        k == Len(last.batch)
        rows == RowsOf("cpy")
    IN /\ Len(rows) = Max(S, k)
       /\ \A i \in 0..(k - 1) : rows[i + 1] = last.batch[i + 1]
       /\ \A i \in k..(S - 1) : isNaN(rows[i + 1])
       /\ ser["cpy"].nilCount = CountNil(last.batch) + Max(S - k, 0)
       /\ ContainsNil(Mem("cpy")) <=> (CountNil(rows) > 0)
PresizedPastValues ==
  /\ Constructed /\ kind = "float64"
  /\ last.row = 3 /\ last.batch = <<1>> /\ ser["cpy"].nilCount = 2

\* C16: on a Series with zero rows, Copy, Table and SimpleExponentialSmoothing
\* given Range{} each return a recoverable error, and none raises a fatal fault.
OnEmptySeries ==
  /\ last.op \in {"Copy", "Table", "SimpleExponentialSmoothing"}
  /\ last.range.all
  /\ ser["src"].len = 0
EmptySeriesRangeIsError == OnEmptySeries => last.out = "error"

\* C16, as the code has it: no fatal fault; Copy returns a Series of zero rows,
\* Table renders no row, and only SimpleExponentialSmoothing returns an error.
EmptySeriesNeverFaults ==
  OnEmptySeries =>
    /\ last.out # "panic"
    /\ last.op = "Copy" => /\ last.out = "ok"
                           /\ ser["cpy"].live /\ ser["cpy"].len = 0
    /\ last.op = "Table" => last.out = "ok"
    /\ last.op = "SimpleExponentialSmoothing"
         => last.out = "error" /\ last.err = "no values in series range"
EmptySeriesCopied == OnEmptySeries /\ last.op = "Copy" /\ ser["cpy"].live

\* C17: for every pair of values a, b (absent included) exactly one of
\* IsLessThanFunc(a, b), IsEqualFunc(a, b), IsLessThanFunc(b, a) is true, and
\* IsLessThanFunc is irreflexive and transitive.
ExactlyOne(p, q, r) == (p /\ ~q /\ ~r) \/ (~p /\ q /\ ~r) \/ (~p /\ ~q /\ r)
ComparisonIsTotalOrder ==
  last.op = "IsLessThanFunc" =>
    LET ab == last.cells[1]
        eq == last.cells[2]
        ba == last.cells[3]
        aa == last.cells[4]
        bc == last.cells[5]
        ac == last.cells[6]
    IN /\ ExactlyOne(ab, eq, ba)
       /\ ~aa
       /\ (ab /\ bc) => ac

\* C18: a default-mode operation that has taken the lock finishes, by
\* returning or by its fatal fault (a row out of range, a value that cannot be
\* coerced), and leaves the lock free: no thread holds the lock outside the
\* body of a call; a thread in a body can always take its next step, each step
\* brings it nearer to the end of the call, and the last one frees the lock;
\* and an operation started when the lock is free can take it (the runs make
\* no call that would grow the Series past ConcLen).
Holds(t) == lock.w = t \/ t \in lock.r
LockFree == lock.w = NoThread /\ lock.r = {}
StepsLeft(pc) ==
  CASE pc = "enter" -> 5
    [] pc = "nrows" -> 4
    [] pc = "read" -> 3
    [] pc = "write" -> 2
    [] pc \in {"return", "skip"} -> 1
    [] OTHER -> 0
EveryExitUnlocks ==
  /\ [](\A t \in Threads :
          /\ Holds(t) => InBody(t)
          /\ InBody(t) => ENABLED Step(t)
          /\ (thr[t].pc = "enter" /\ LockFree /\ Room(thr[t].op))
               => ENABLED Enter(t))
  /\ [][\A t \in Threads :
          /\ (thr[t].pc # "idle" /\ thr'[t] # thr[t])
               => StepsLeft(thr'[t].pc) < StepsLeft(thr[t].pc)
          /\ thr'[t].pc = "idle" => ~Holds(t)']_vars
FaultedUnderLock ==
  \E t \in Threads :
     /\ thr[t].fault /\ thr[t].op = "Update" /\ thr[t].pc = "return"
     /\ lock.w = t
     /\ thr[CHOOSE u \in Threads : u # t].pc = "enter"

\* C19: Prepend(v) leaves the Series as Insert(0, v) would: the same row
\* count, the same value at every row and the same nilCount (so the same
\* ContainsNil), with and without spare capacity, for present and absent v.
PrependStep ==
  (last'.op = "Prepend" /\ last'.t = "src") =>
     LET m == Mem("src")
         ref == insert(m, 0, last'.val, m.s.len + 1)
     IN /\ ser'["src"].len = ref.s.len
        /\ Rows(heap', ser'["src"]) = Rows(ref.h, ref.s)
        /\ ser'["src"].nilCount = ref.s.nilCount
PrependIsInsertAtZero == [][PrependStep]_vars

\* C20: a Copy of the sub-range [start, end] of a Series that has rows holds
\* the source rows start..end in order, and its nilCount is the number of
\* absent rows of the copy, so that ContainsNil() on the copy is true exactly
\* when one of the rows start..end is absent.
CopyOfRangeCountsItsOwn ==
  (last.op = "Copy" /\ last.out = "ok" /\ ser["src"].len > 0) =>
     LET lim == Limits(last.range, ser["src"].len)
         rows == RowsOf("cpy")
     IN /\ Len(rows) = lim.end - lim.start + 1
        /\ \A i \in 1..Len(rows) : rows[i] = RowsOf("src")[lim.start + i]
        /\ ser["cpy"].nilCount = CountNil(rows)
        /\ ContainsNil(Mem("cpy")) <=> (\E i \in 1..Len(rows) : isNaN(rows[i]))

\* C21: Insert(r, v) of a single value puts v at row r and shifts the old
\* rows r..N-1 to r+1..N; Remove(r) shifts the rows r+1..N-1 left by one and
\* decrements nilCount exactly when the removed row was absent; and Remove(r)
\* after Insert(r, v) restores the previous rows, row count and nilCount.
InsertRemoveStep ==
  LET old == RowsOf("src")
      N == ser["src"].len
      new == Rows(heap', ser'["src"])
      r == last'.row
  IN /\ (last'.op = "Insert") =>
          /\ ser'["src"].len = N + 1
          /\ new[r + 1] = last'.val
          /\ \A i \in 1..r : new[i] = old[i]
          /\ \A i \in (r + 1)..N : new[i + 1] = old[i]
          /\ LET back == Remove(Mem("src")', r)
             IN /\ back.s.len = N
                /\ \A i \in 1..N : Rows(back.h, back.s)[i] = old[i]
                /\ back.s.nilCount = ser["src"].nilCount
     /\ (last'.op = "Remove") =>
          /\ ser'["src"].len = N - 1
          /\ \A i \in 1..r : new[i] = old[i]
          /\ \A i \in (r + 2)..N : new[i - 1] = old[i]
          /\ ser'["src"].nilCount =
                ser["src"].nilCount - (IF isNaN(old[r + 1]) THEN 1 ELSE 0)
InsertThenRemoveRestores == [][InsertRemoveStep]_vars

\* An absent value was inserted in the middle of a Series that now has three
\* rows, and removing that row again takes it out of nilCount.
InsertedAbsentMidway ==
  /\ last.op = "Insert" /\ last.val = Nil /\ last.row = 1
  /\ ser["src"].len = 3 /\ isNaN(RowsOf("src")[2])
  /\ Remove(Mem("src"), 1).s.nilCount = ser["src"].nilCount - 1

\* C22: a Prepend, Append, Insert or Update that panics, on a value that
\* cannot be coerced or on a row out of range, leaves the Series as it was:
\* the same rows, the same row count and the same nilCount.
RecoveredStep ==
  (last'.out = "panic" /\ last'.op \in {"Prepend", "Append", "Insert", "Update"}) =>
     /\ ser'["src"].len = ser["src"].len
     /\ \A i \in 1..ser["src"].len : Rows(heap', ser'["src"])[i] = RowsOf("src")[i]
     /\ ser'["src"].nilCount = ser["src"].nilCount
PanicLeavesSeriesUnchanged == [][RecoveredStep]_vars

\* C23: the Series SimpleExponentialSmoothing returns has a nilCount equal
\* to the number of NaN rows among its m values; when the historical window
\* holds an absent value every forecast is NaN and ContainsNil() on the result
\* (nilCount > 0) is true.
ForecastCountsItsNaN ==
  (ses.pc = "return" /\ ses.out = "series") =>
     LET absent == {k \in 1..Len(ses.values) : ses.values[k].nan}
         window == {i \in ses.start..ses.end : isNaN(RowsOf("src")[i + 1])}
     IN /\ ses.nilCount = Cardinality(absent)
        /\ window # {} => (Cardinality(absent) = ses.m /\ ses.nilCount > 0)

====
